---- MODULE Spec2Model ----
(***************************************************************************)
(* Order workflow of the retail backend: OrdersService (create,            *)
(* updateStatus, processPayment, cancel) over ProductsService (findOne,    *)
(* updateStock, decrementStock) and the in-file payment gateway.           *)
(*                                                                         *)
(* Every request handler is an async function; each `await` on the         *)
(* database or the gateway is a point where other requests may run, so     *)
(* each handler is split into one action per awaited effect.  A            *)
(* repository save(entity) writes the columns of the in-memory entity      *)
(* over the stored row (status and total for an order, stock for a         *)
(* product).  Prices are whole numbers (minor currency units).             *)
(***************************************************************************)
EXTENDS Integers, Sequences, FiniteSets, TLC

\* ---------------------------------------------------------------- bounds
NumProcs == 2        \* concurrent request handlers
NumProducts == 2     \* products in the catalogue
InitStock == 2       \* stock of every product at start
MaxQty == 2          \* largest quantity of a requested line
MaxItems == 2        \* most lines in one create request
MaxOps == 3          \* requests started in one behaviour

\* ------------------------------------------------------ program constants
maxRetries == 3
BackoffBase == 100

Procs == 1..NumProcs
Products == 1..NumProducts
\* product ids a request may name: the catalogue plus one id that is absent
ProductIds == 1..(NumProducts + 1)
\* user ids a request may name: user 1 exists, user 2 does not
Users == {1}
UserIds == {1, 2}

PENDING == "PENDING"
CONFIRMED == "CONFIRMED"
CANCELLED == "CANCELLED"
OrderStatus == {PENDING, CONFIRMED, CANCELLED}

\* the catalogue price of a product at start
PriceOf(id) == 10 * id

\* outcomes of one call of paymentService.processPayment
GatewayResults == {"success", "throw"}

VARIABLES
    stock,      \* products table: id -> stock
    orders,     \* orders table: sequence indexed by order id of [status, total]
    items,      \* order_items table: sequence of [orderId, productId, quantity, price]
    pc,         \* per handler: the await it is suspended at
    loc,        \* per handler: its local variables
    requested,  \* per order id: how many lines its create request asked for
    reserved,   \* per product: sum of the quantities decrementStock took
    nops,       \* requests started so far
    price,      \* products table: id -> price
    restocked   \* per product: sum of the item quantities cancel restocked

vars == <<stock, orders, items, pc, loc, requested, reserved, nops, price, restocked>>

NoProduct == [id |-> 0, stock |-> 0, price |-> 0]
NoOrder == [status |-> "none", total |-> 0]
NoOut == [kind |-> "none"]

Blank ==
    [op |-> "none", oid |-> 0, req |-> <<>>, i |-> 0, order |-> NoOrder,
     n |-> 0, oitems |-> <<>>, product |-> NoProduct, total |-> 0, attempt |-> 0,
     lastError |-> NoOut, log |-> <<>>, delays |-> <<>>, newStatus |-> "none",
     solo |-> FALSE, stock0 |-> <<>>, loaded |-> "none", out |-> NoOut]

\* ------------------------------------------------------------ pure helpers
RECURSIVE SumSubtotals(_)
SumSubtotals(s) ==
    IF s = <<>> THEN 0
    ELSE Head(s).price * Head(s).quantity + SumSubtotals(Tail(s))

RECURSIVE SumQty(_, _)
SumQty(s, id) ==
    IF s = <<>> THEN 0
    ELSE (IF Head(s).productId = id THEN Head(s).quantity ELSE 0)
         + SumQty(Tail(s), id)

RECURSIVE Pow2(_)
Pow2(n) == IF n = 0 THEN 1 ELSE 2 * Pow2(n - 1)

\* relation 'items' of an order, as findOne loads it
ItemsOf(oid) == SelectSeq(items, LAMBDA it : it.orderId = oid)

\* Errors
NotFound(what, id) == [kind |-> "error", class |-> "NotFound", what |-> what, id |-> id]
BadRequest(msg, id) == [kind |-> "error", class |-> "BadRequest", what |-> msg, id |-> id]

\* a handler step by p: every other handler has been interleaved with
Step(p, l) ==
    [q \in Procs |-> IF q = p THEN l
                     ELSE [loc[q] EXCEPT !.solo = FALSE]]

Finish(p, l, out) == Step(p, [l EXCEPT !.out = out])

Init ==
    /\ stock = [id \in Products |-> InitStock]
    /\ orders = <<>>
    /\ items = <<>>
    /\ pc = [p \in Procs |-> "idle"]
    /\ loc = [p \in Procs |-> Blank]
    /\ requested = <<>>
    /\ reserved = [id \in Products |-> 0]
    /\ nops = 0
    /\ price = [id \in Products |-> PriceOf(id)]
    /\ restocked = [id \in Products |-> 0]


\* ------------------------------------------------------------ request inputs
\* a line of a create request; the quantity of a line that names the absent
\* product is never read, so one quantity stands for all
Lines ==
    { dto \in [productId : ProductIds, quantity : 1..MaxQty] :
        dto.productId \in Products \/ dto.quantity = 1 }

\* order ids a request may name: every stored order plus one id that is absent
OrderArgs == 1..(Len(orders) + 1)

\* a worker takes its next request once the previous one has settled
Begin(p) ==
    /\ pc[p] \in {"idle", "done"}
    /\ \A q \in Procs : q < p => pc[q] # "idle"   \* workers are interchangeable
    /\ nops < MaxOps
    /\ nops' = nops + 1

\* the locals of a fresh call; for cancel and processPayment, solo records that
\* no other handler has taken a step since the call began, stock0 the stock
\* a cancel found when it began, and loaded the status processPayment loaded
StartLoc(op, oid) ==
    [Blank EXCEPT !.op = op, !.oid = oid,
                  !.solo = (op \in {"cancel", "processPayment"}),
                  !.stock0 = IF op = "cancel" THEN stock ELSE <<>>]

\* ------------------------------------------------- ProductsService (ledger)
\* findOne: the product row, or absent
ProductExists(id) == id \in Products
FindProduct(id) == [id |-> id, stock |-> stock[id], price |-> price[id]]

\* decrementStock without the stock guard in its WHERE clause
DecrementAffectedUnguarded(id, quantity) ==
    IF ProductExists(id) THEN 1 ELSE 0

\* decrementStock: rows touched by
\*   UPDATE product SET stock = stock - :quantity WHERE id = :id AND stock >= :quantity
DecrementAffected(id, quantity) ==
    IF ProductExists(id) /\ stock[id] >= quantity THEN 1 ELSE 0

\* decrementStock lowering the stock by one unit whatever the quantity
DecrementSetOne(s, quantity) == s - 1

\* decrementStock: SET stock = stock - :quantity
DecrementSet(s, quantity) == s - quantity

\* --------------------------------------------------------- OrdersService.create
\* the stock check of the loop body, off by one
NotEnoughStockOffByOne(product, quantity) == product.stock + 1 < quantity

\* the stock check of the loop body
NotEnoughStock(product, quantity) == product.stock < quantity

\* the subtotal one line adds to the running total
LineTotal(product, quantity) == product.price * quantity

\* where the loop goes after line i of n
AfterLine(i, n) == IF i < n THEN "c_find" ELSE "c_total"

\* a throw inside the loop that goes on with the loop
AfterThrowContinue(i, n) == AfterLine(i, n)

\* a throw inside the loop ends the call: nothing catches it
AfterThrow(i, n) == "done"

\* usersService.findOne, then the order shell is saved as PENDING; n is the
\* number of lines of the request.  The shell carries no total yet: the row
\* holds the column's default, 0, until the final save.
CreateStart(p) ==
    /\ Begin(p)
    /\ \E userId \in UserIds, n \in 0..MaxItems :
         IF userId \notin Users
         THEN /\ loc' = Finish(p, StartLoc("create", 0), NotFound("User", userId))
              /\ pc' = [pc EXCEPT ![p] = "done"]
              /\ UNCHANGED <<orders, requested>>
         ELSE /\ orders' = Append(orders, [status |-> PENDING, total |-> 0])
              /\ requested' = Append(requested, n)
              /\ loc' = Step(p, [StartLoc("create", Len(orders) + 1)
                                   EXCEPT !.n = n, !.i = 1,
                                          !.order = [status |-> PENDING, total |-> 0]])
              /\ pc' = [pc EXCEPT ![p] = AfterLine(0, n)]
    /\ UNCHANGED <<stock, items, reserved, price, restocked>>

\* productsService.findOne(itemDto.productId) and the stock check.  The lines of
\* the request are drawn as the loop reaches them (the handler reads none of
\* them earlier); req holds the lines read so far.
CreateFind(p) ==
    /\ pc[p] = "c_find"
    /\ \E dto \in Lines :
       LET l == [loc[p] EXCEPT !.req = Append(@, dto)]
       IN IF ~ProductExists(dto.productId)
          THEN /\ loc' = Finish(p, l, NotFound("Product", dto.productId))
               /\ pc' = [pc EXCEPT ![p] = AfterThrow(l.i, l.n)]
          ELSE LET product == FindProduct(dto.productId)
               IN IF NotEnoughStock(product, dto.quantity)
                  THEN /\ loc' = Finish(p, l,
                                   BadRequest("Not enough stock for", product.id))
                       /\ pc' = [pc EXCEPT ![p] = AfterThrow(l.i, l.n)]
                  ELSE /\ loc' = Step(p, [l EXCEPT !.product = product])
                       /\ pc' = [pc EXCEPT ![p] = "c_item"]
    /\ UNCHANGED <<stock, orders, items, requested, reserved, nops, price, restocked>>

\* orderItemsRepository.save(orderItem); total += product.price * quantity
CreateSaveItem(p) ==
    /\ pc[p] = "c_item"
    /\ LET l == loc[p]
           dto == l.req[l.i]
       IN /\ items' = Append(items, [orderId |-> l.oid, productId |-> l.product.id,
                                     quantity |-> dto.quantity,
                                     price |-> l.product.price])
          /\ loc' = Step(p, [l EXCEPT !.total = @ + LineTotal(l.product, dto.quantity)])
    /\ pc' = [pc EXCEPT ![p] = "c_dec"]
    /\ UNCHANGED <<stock, orders, requested, reserved, nops, price, restocked>>

\* productsService.decrementStock(product.id, itemDto.quantity)
CreateDecrement(p) ==
    /\ pc[p] = "c_dec"
    /\ LET l == loc[p]
           id == l.product.id
           quantity == l.req[l.i].quantity
       IN IF DecrementAffected(id, quantity) = 0
          THEN /\ loc' = Finish(p, l, BadRequest("Not enough stock available", 0))
               /\ pc' = [pc EXCEPT ![p] = AfterThrow(l.i, l.n)]
               /\ UNCHANGED <<stock, reserved>>
          ELSE /\ stock' = [stock EXCEPT ![id] = DecrementSet(@, quantity)]
               /\ reserved' = [reserved EXCEPT ![id] = @ + quantity]
               /\ loc' = Step(p, [l EXCEPT !.i = @ + 1, !.product = NoProduct])
               /\ pc' = [pc EXCEPT ![p] = AfterLine(l.i, l.n)]
    /\ UNCHANGED <<orders, items, requested, nops, price, restocked>>

\* savedOrder.total = total; ordersRepository.save(savedOrder)
CreateSaveTotal(p) ==
    /\ pc[p] = "c_total"
    /\ LET l == loc[p]
       IN /\ orders' = [orders EXCEPT ![l.oid] =
                           [status |-> l.order.status, total |-> l.total]]
          /\ loc' = Step(p, l)
    /\ pc' = [pc EXCEPT ![p] = "c_ret"]
    /\ UNCHANGED <<stock, items, requested, reserved, nops, price, restocked>>

\* return this.findOne(savedOrder.id)
CreateReturn(p) ==
    /\ pc[p] = "c_ret"
    /\ LET l == loc[p]
       IN loc' = Finish(p, l, [kind |-> "order", status |-> orders[l.oid].status,
                               total |-> orders[l.oid].total,
                               items |-> ItemsOf(l.oid)])
    /\ pc' = [pc EXCEPT ![p] = "done"]
    /\ UNCHANGED <<stock, orders, items, requested, reserved, nops, price, restocked>>

Create(p) ==
    \/ CreateStart(p)
    \/ CreateFind(p)
    \/ CreateSaveItem(p)
    \/ CreateDecrement(p)
    \/ CreateSaveTotal(p)
    \/ CreateReturn(p)

\* ------------------------------------------------- OrdersService.findOne
OrderExists(oid) == oid \in 1..Len(orders)

\* ------------------------------------------------- OrdersService.updateStatus
\* const order = await this.findOne(id)
UpdateStatusLoad(p) ==
    /\ Begin(p)
    /\ \E oid \in OrderArgs, status \in OrderStatus :
         IF ~OrderExists(oid)
         THEN /\ loc' = Finish(p, StartLoc("updateStatus", oid), NotFound("Order", oid))
              /\ pc' = [pc EXCEPT ![p] = "done"]
         ELSE /\ loc' = Step(p, [StartLoc("updateStatus", oid)
                                   EXCEPT !.order = orders[oid], !.newStatus = status])
              /\ pc' = [pc EXCEPT ![p] = "u_save"]
    /\ UNCHANGED <<stock, orders, items, requested, reserved, price, restocked>>

\* order.status = status; return this.ordersRepository.save(order)
UpdateStatusSave(p) ==
    /\ pc[p] = "u_save"
    /\ LET l == loc[p]
           saved == [status |-> l.newStatus, total |-> l.order.total]
       IN /\ orders' = [orders EXCEPT ![l.oid] = saved]
          /\ loc' = Finish(p, l, [kind |-> "order", status |-> saved.status,
                                  total |-> saved.total, items |-> <<>>])
    /\ pc' = [pc EXCEPT ![p] = "done"]
    /\ UNCHANGED <<stock, items, requested, reserved, nops, price, restocked>>

UpdateStatus(p) ==
    \/ UpdateStatusLoad(p)
    \/ UpdateStatusSave(p)

\* ------------------------------------------------ OrdersService.processPayment
\* a backoff that grows linearly instead of doubling
BackoffLinear(attempt) == BackoffBase * (attempt + 1)

\* the wait after a failed attempt: 100 * Math.pow(2, attempt)
Backoff(attempt) == BackoffBase * Pow2(attempt)

\* the loop condition attempt < this.maxRetries
MoreAttempts(attempt) == attempt < maxRetries

\* const order = await this.findOne(orderId)
PayLoad(p) ==
    /\ Begin(p)
    /\ \E oid \in OrderArgs :
         IF ~OrderExists(oid)
         THEN /\ loc' = Finish(p, StartLoc("processPayment", oid), NotFound("Order", oid))
              /\ pc' = [pc EXCEPT ![p] = "done"]
         ELSE /\ loc' = Step(p, [StartLoc("processPayment", oid)
                                   EXCEPT !.order = orders[oid],
                                          !.loaded = orders[oid].status])
              /\ pc' = [pc EXCEPT ![p] = IF MoreAttempts(0) THEN "p_call" ELSE "p_throw"]
    /\ UNCHANGED <<stock, orders, items, requested, reserved, price, restocked>>

\* await paymentService.processPayment(orderId, Number(order.total)) settles
PayCall(p) ==
    /\ pc[p] = "p_call"
    /\ \E r \in GatewayResults :
         LET l == [loc[p] EXCEPT !.log = Append(@, r)]
         IN IF r = "throw"
            THEN /\ loc' = Step(p, [l EXCEPT !.lastError =
                                      [kind |-> "error", class |-> "PaymentError",
                                       what |-> "Payment service unavailable",
                                       id |-> l.attempt]])
                 /\ pc' = [pc EXCEPT ![p] = "p_sleep"]
            ELSE \* result.success: order.status = CONFIRMED, then save
                 /\ loc' = Step(p, [l EXCEPT !.order.status = CONFIRMED,
                                             !.out = [kind |-> "payment", success |-> TRUE,
                                                      transactionId |-> l.attempt]])
                 /\ pc' = [pc EXCEPT ![p] = "p_save"]
    /\ UNCHANGED <<stock, orders, items, requested, reserved, nops, price, restocked>>

\* the gateway call settles with a result whose success is false: the if is
\* skipped, the try block ends without entering catch, and the loop goes to
\* attempt++ with no wait and lastError untouched
PayCallDeclined(p) ==
    /\ pc[p] = "p_call"
    /\ LET l == [loc[p] EXCEPT !.log = Append(@, "declined")]
       IN /\ loc' = Step(p, [l EXCEPT !.attempt = @ + 1])
          /\ pc' = [pc EXCEPT ![p] =
                       IF MoreAttempts(l.attempt + 1) THEN "p_call" ELSE "p_throw"]
    /\ UNCHANGED <<stock, orders, items, requested, reserved, nops, price, restocked>>

\* a success branch that saves but does not return: the loop goes on
AfterConfirmNoReturn(attempt) == "p_call"

\* where processPayment goes once the confirmed order is saved: return result
AfterConfirm(attempt) == "done"

\* await this.ordersRepository.save(order); return result
PaySave(p) ==
    /\ pc[p] = "p_save"
    /\ LET l == loc[p]
       IN /\ orders' = [orders EXCEPT ![l.oid] = l.order]
          /\ loc' = Step(p, l)
          /\ pc' = [pc EXCEPT ![p] = AfterConfirm(l.attempt)]
    /\ UNCHANGED <<stock, items, requested, reserved, nops, price, restocked>>

\* the backoff timer of the catch block fires; attempt++
PaySleep(p) ==
    /\ pc[p] = "p_sleep"
    /\ LET l == loc[p]
       IN /\ loc' = Step(p, [l EXCEPT !.delays = Append(@, Backoff(l.attempt)),
                                      !.attempt = @ + 1])
          /\ pc' = [pc EXCEPT ![p] =
                       IF MoreAttempts(l.attempt + 1) THEN "p_call" ELSE "p_throw"]
    /\ UNCHANGED <<stock, orders, items, requested, reserved, nops, price, restocked>>

\* throw lastError!
PayThrow(p) ==
    /\ pc[p] = "p_throw"
    /\ loc' = Finish(p, loc[p], loc[p].lastError)
    /\ pc' = [pc EXCEPT ![p] = "done"]
    /\ UNCHANGED <<stock, orders, items, requested, reserved, nops, price, restocked>>

ProcessPayment(p) ==
    \/ PayLoad(p)
    \/ PayCall(p)
    \/ PaySave(p)
    \/ PaySleep(p)
    \/ PayThrow(p)

\* --------------------------------------------------------- OrdersService.cancel
\* a guard that rejects only an already cancelled order
CancellableUnlessCancelled(order) == order.status # CANCELLED

\* the guard: only a PENDING order may be cancelled
Cancellable(order) == order.status = PENDING

\* cancel passing the item's quantity where updateStock expects the new stock
RestockValueDelta(product, item) == item.quantity

\* the stock cancel asks updateStock to store for one item
RestockValue(product, item) == product.stock + item.quantity

\* where the loop goes after item i of n
AfterItem(i, n) == IF i < n THEN "x_find" ELSE "x_save"

\* const order = await this.findOne(id), and the status guard
CancelLoad(p) ==
    /\ Begin(p)
    /\ \E oid \in OrderArgs :
         IF ~OrderExists(oid)
         THEN /\ loc' = Finish(p, StartLoc("cancel", oid), NotFound("Order", oid))
              /\ pc' = [pc EXCEPT ![p] = "done"]
         ELSE IF ~Cancellable(orders[oid])
         THEN /\ loc' = Finish(p, [StartLoc("cancel", oid) EXCEPT !.order = orders[oid]],
                          BadRequest("Only pending orders can be cancelled", oid))
              /\ pc' = [pc EXCEPT ![p] = "done"]
         ELSE /\ loc' = Step(p, [StartLoc("cancel", oid)
                                   EXCEPT !.order = orders[oid],
                                          !.oitems = ItemsOf(oid), !.i = 1])
              /\ pc' = [pc EXCEPT ![p] = AfterItem(0, Len(ItemsOf(oid)))]
    /\ UNCHANGED <<stock, orders, items, requested, reserved, price, restocked>>

\* const product = await this.productsService.findOne(item.productId)
CancelFind(p) ==
    /\ pc[p] = "x_find"
    /\ LET l == loc[p]
       IN loc' = Step(p, [l EXCEPT !.product = FindProduct(l.oitems[l.i].productId)])
    /\ pc' = [pc EXCEPT ![p] = "x_upd"]
    /\ UNCHANGED <<stock, orders, items, requested, reserved, nops, price, restocked>>

\* await this.productsService.updateStock(product.id, product.stock + item.quantity)
\* updateStock: product.stock = quantity; save(product)
CancelUpdateStock(p) ==
    /\ pc[p] = "x_upd"
    /\ LET l == loc[p]
       IN /\ stock' = [stock EXCEPT ![l.product.id] =
                          RestockValue(l.product, l.oitems[l.i])]
          /\ restocked' = [restocked EXCEPT ![l.product.id] =
                              @ + l.oitems[l.i].quantity]
          /\ loc' = Step(p, [l EXCEPT !.i = @ + 1, !.product = NoProduct])
          /\ pc' = [pc EXCEPT ![p] = AfterItem(l.i, Len(l.oitems))]
    /\ UNCHANGED <<orders, items, requested, reserved, nops, price>>

\* order.status = CANCELLED; return this.ordersRepository.save(order)
CancelSave(p) ==
    /\ pc[p] = "x_save"
    /\ LET l == loc[p]
           saved == [status |-> CANCELLED, total |-> l.order.total]
       IN /\ orders' = [orders EXCEPT ![l.oid] = saved]
          /\ loc' = Finish(p, l, [kind |-> "order", status |-> saved.status,
                                  total |-> saved.total, items |-> l.oitems])
    /\ pc' = [pc EXCEPT ![p] = "done"]
    /\ UNCHANGED <<stock, items, requested, reserved, nops, price, restocked>>

Cancel(p) ==
    \/ CancelLoad(p)
    \/ CancelFind(p)
    \/ CancelUpdateStock(p)
    \/ CancelSave(p)

\* ------------------------------------------------------- product price change
\* the prices a product may be given
PriceChoices == { PriceOf(id) : id \in ProductIds }

\* a catalogue update gives a product another price; it is a request like the
\* others and runs in one database write
ChangePrice ==
    /\ nops < MaxOps
    /\ nops' = nops + 1
    /\ \E id \in Products :
         \E v \in PriceChoices \ {price[id]} :
            price' = [price EXCEPT ![id] = v]
    /\ loc' = [q \in Procs |-> [loc[q] EXCEPT !.solo = FALSE]]
    /\ UNCHANGED <<stock, orders, items, pc, requested, reserved, restocked>>

\* ------------------------------------------------------------ order item reads
\* an item price read through the product relation instead of the item's column
ItemPriceLive(item) == price[item.productId]

\* the recorded price of an order item: the item's own price column
ItemPrice(item) == item.price

\* ------------------------------------- OrdersService.getOrderWithFullDetails
\* a value the database driver hands over for a decimal column, and Number()
\* of such a value
DecimalColumn(n) == [decimal |-> n]
Number(v) == v.decimal

Null == [null |-> TRUE]
DateOf(n) == [date |-> n]

\* the rows the relations 'user', 'items.product' and
\* 'items.product.category' load; product 1 is the one product with a category
CategoryEntity(id) ==
    IF id = 1 THEN [id |-> id, name |-> <<"category", id>>] ELSE Null

ProductEntity(id) ==
    [id |-> id, name |-> <<"product", id>>, price |-> DecimalColumn(price[id]),
     stock |-> stock[id], category |-> CategoryEntity(id)]

UserEntity(id) ==
    [id |-> id, email |-> <<"email", id>>, name |-> <<"user", id>>,
     isActive |-> TRUE, createdAt |-> DateOf(0)]

\* relation 'items' with its product: the order's rows of order_items, each
\* with its row id
ItemEntities(oid) ==
    LET ids == SelectSeq([k \in 1..Len(items) |-> k],
                         LAMBDA k : items[k].orderId = oid)
    IN [j \in 1..Len(ids) |->
          [id |-> ids[j], orderId |-> oid, productId |-> items[ids[j]].productId,
           quantity |-> items[ids[j]].quantity,
           price |-> DecimalColumn(items[ids[j]].price),
           product |-> ProductEntity(items[ids[j]].productId)]]

\* the order entity findOne loads with its relations; every stored order
\* belongs to the one existing user, and orders are dated in creation order
OrderEntity(oid) ==
    LET userId == CHOOSE u \in Users : TRUE
    IN [id |-> oid, status |-> orders[oid].status,
        total |-> DecimalColumn(orders[oid].total), userId |-> userId,
        createdAt |-> DateOf(oid), user |-> UserEntity(userId),
        items |-> ItemEntities(oid)]

\* latestOrder given the whole projected entity instead of four of its fields
OrderSummaryWhole(order) == order

\* user.latestOrder
OrderSummary(order) ==
    [id |-> order.id, status |-> order.status, total |-> Number(order.total),
     createdAt |-> order.createdAt]

CategorySummary(category) ==
    IF category # Null THEN [id |-> category.id, name |-> category.name]
    ELSE Null

ProductSummary(product) ==
    [id |-> product.id, name |-> product.name, price |-> Number(product.price),
     category |-> CategorySummary(product.category)]

OrderItemDetails(item) ==
    [id |-> item.id, productId |-> item.productId, quantity |-> item.quantity,
     price |-> Number(ItemPrice(item)),
     product |-> ProductSummary(item.product)]

MapToOrderFullDetails(order) ==
    [id |-> order.id, status |-> order.status, total |-> Number(order.total),
     userId |-> order.userId, createdAt |-> order.createdAt,
     user |-> [id |-> order.user.id, email |-> order.user.email,
               name |-> order.user.name, isActive |-> order.user.isActive,
               createdAt |-> order.user.createdAt,
               latestOrder |-> OrderSummary(order)],
     items |-> [k \in 1..Len(order.items) |-> OrderItemDetails(order.items[k])]]

\* one read of the order with its relations, then the mapping
GetOrderWithFullDetails(p) ==
    /\ Begin(p)
    /\ \E id \in OrderArgs :
         loc' = Finish(p, StartLoc("getOrderWithFullDetails", id),
                       IF OrderExists(id)
                       THEN [kind |-> "details",
                             body |-> MapToOrderFullDetails(OrderEntity(id))]
                       ELSE NotFound("Order", id))
    /\ pc' = [pc EXCEPT ![p] = "done"]
    /\ UNCHANGED <<stock, orders, items, requested, reserved, price, restocked>>

\* ------------------------------------------------------------ specifications
Next ==
    \E p \in Procs :
        \/ Create(p)
        \/ UpdateStatus(p)
        \/ ProcessPayment(p)
        \/ Cancel(p)

Spec == Init /\ [][Next]_vars

\* the handlers together with catalogue price updates
NextPrice ==
    \/ Next
    \/ ChangePrice

SpecPrice == Init /\ [][NextPrice]_vars

\* the handlers together with the full-details read
NextDetails ==
    \/ Next
    \/ \E p \in Procs : GetOrderWithFullDetails(p)

SpecDetails == Init /\ [][NextDetails]_vars

\* the handlers with a payment gateway that may also answer success: false
NextGateway ==
    \/ Next
    \/ \E p \in Procs : PayCallDeclined(p)

SpecGateway == Init /\ [][NextGateway]_vars

\* create, processPayment and cancel, without updateStatus
NextWorkflow ==
    \E p \in Procs :
        \/ Create(p)
        \/ ProcessPayment(p)
        \/ Cancel(p)

SpecWorkflow == Init /\ [][NextWorkflow]_vars

\* only create requests run: concurrent reservations and nothing else
NextReserve ==
    \E p \in Procs : Create(p)

SpecReserve == Init /\ [][NextReserve]_vars

TypeOK ==
    /\ \A id \in Products : stock[id] \in Int
    /\ \A oid \in 1..Len(orders) : orders[oid].status \in OrderStatus
    /\ Len(requested) = Len(orders)
    /\ nops \in 0..MaxOps


\* ------------------------------------------------------------ shared notions
Last(s) == s[Len(s)]

Settled(p, op) == pc[p] = "done" /\ loc[p].op = op

\* p is the handler that began a cancel in this step (a step of one handler
\* clears solo for all the others)
BeginsCancel(p) ==
    /\ nops' = nops + 1
    /\ loc'[p].op = "cancel"
    /\ loc'[p].solo

StockNonNegative == \A id \in Products : stock[id] >= 0

\* ------------------------------------------------------------------- C1
\* C1: under concurrent create requests, whose only stock operation is the
\* reserve decrementStock, no product's stock is ever negative and the
\* quantities of the reservations that succeeded never add up to more than
\* the initial stock (so two reservations racing for the last units cannot
\* both succeed).
C1_NoOversell ==
    \A id \in Products : stock[id] >= 0 /\ reserved[id] <= InitStock

\* two creates passed the stock check on the same product at the same stock,
\* one reservation took the last units and the other was refused
C1_Witness ==
    \E p \in Procs, id \in Products :
        /\ Settled(p, "create")
        /\ loc[p].out = BadRequest("Not enough stock available", 0)
        /\ loc[p].product.id = id
        /\ loc[p].product.stock >= Last(loc[p].req).quantity
        /\ reserved[id] = InitStock
        /\ stock[id] = 0

\* ------------------------------------------------------------------- C2
\* C2: once an order is CONFIRMED or CANCELLED, no step changes its status.
C2_TerminalStatusImmutable ==
    [][\A oid \in 1..Len(orders) :
          orders[oid].status \in {CONFIRMED, CANCELLED}
              => orders'[oid].status = orders[oid].status]_vars

\* ------------------------------------------------------------------- C3
\* a step that changes the stock of id is a reserve by a create (stock covers
\* the line's quantity and falls by it) or a restock by a cancel (stock rises
\* by the item's quantity)
LedgerEffect(id) ==
    \E p \in Procs :
        \/ /\ pc[p] = "c_dec"
           /\ pc'[p] # pc[p]
           /\ loc[p].product.id = id
           /\ stock[id] >= Last(loc[p].req).quantity
           /\ stock'[id] = stock[id] - Last(loc[p].req).quantity
        \/ /\ pc[p] = "x_upd"
           /\ pc'[p] # pc[p]
           /\ loc[p].product.id = id
           /\ stock'[id] = stock[id] + loc[p].oitems[loc[p].i].quantity

\* C3: stock is never negative, and every change of a product's stock is the
\* effect of a ledger operation: a conditional reserve or a restock of an
\* item's quantity.
C3_StockOnlyViaLedger ==
    /\ []StockNonNegative
    /\ [][\A id \in Products : stock'[id] # stock[id] => LedgerEffect(id)]_vars

\* ------------------------------------------------------------------- C4
\* C4: a cancel of a PENDING order that ran to completion with no step of
\* another handler since it began has raised every product's stock by exactly
\* the quantities of that order's items for the product, and the order is
\* CANCELLED.
C4_CancelRestocksExactly ==
    \A p \in Procs :
        (Settled(p, "cancel") /\ loc[p].out.kind = "order" /\ loc[p].solo)
            => /\ \A id \in Products :
                    stock[id] = loc[p].stock0[id] + SumQty(ItemsOf(loc[p].oid), id)
               /\ orders[loc[p].oid].status = CANCELLED

\* an uninterrupted cancel of an order with two items has completed
C4_Witness ==
    \E p \in Procs :
        /\ Settled(p, "cancel")
        /\ loc[p].out.kind = "order"
        /\ loc[p].solo
        /\ Len(ItemsOf(loc[p].oid)) = 2

\* ------------------------------------------------------------------- C5
\* C5: a cancel that finds its order CONFIRMED or CANCELLED fails at once
\* with the invalid-transition error and changes neither any stock nor any
\* order.
C5_CancelRejected ==
    [][\A p \in Procs :
          (/\ BeginsCancel(p)
           /\ OrderExists(loc'[p].oid)
           /\ orders[loc'[p].oid].status \in {CONFIRMED, CANCELLED})
              => /\ pc'[p] = "done"
                 /\ loc'[p].out = BadRequest("Only pending orders can be cancelled",
                                             loc'[p].oid)
                 /\ stock' = stock
                 /\ orders' = orders]_vars

\* a cancel of a CONFIRMED order was rejected
C5_Witness ==
    \E p \in Procs :
        /\ Settled(p, "cancel")
        /\ loc[p].order.status = CONFIRMED
        /\ loc[p].out.kind = "error"

\* ------------------------------------------------------------------- C6
AllThrew(p) == \A k \in 1..Len(loc[p].log) : loc[p].log[k] = "throw"

\* C6: no processPayment makes more than 3 gateway calls; one whose every
\* gateway call failed has made exactly 3 calls, waited 100, 200, 400 in that
\* order, and ended by raising the failure of the last attempt; if nothing
\* else ran meanwhile and the order was PENDING, it still is.
C6_RetryBound ==
    \A p \in Procs :
        /\ loc[p].op = "processPayment" => Len(loc[p].log) <= 3
        /\ (Settled(p, "processPayment") /\ loc[p].order # NoOrder /\ AllThrew(p))
              => /\ Len(loc[p].log) = 3
                 /\ loc[p].delays = <<100, 200, 400>>
                 /\ loc[p].out.kind = "error"
                 /\ loc[p].out.class = "PaymentError"
                 /\ loc[p].out.id = 2
                 /\ (loc[p].solo /\ loc[p].order.status = PENDING)
                        => orders[loc[p].oid].status = PENDING

\* a processPayment of a PENDING order ran alone and every call failed
C6_Witness ==
    \E p \in Procs :
        /\ Settled(p, "processPayment")
        /\ loc[p].order.status = PENDING
        /\ loc[p].solo
        /\ Len(loc[p].log) = 3
        /\ AllThrew(p)

\* ------------------------------------------------------------------- C7
\* C7: in a processPayment a successful gateway call is always the last one
\* made; when it settles after a first success at attempt k it has made k+1
\* calls and returns that attempt's result; the step after the success saves
\* the order as CONFIRMED; and a processPayment writes an order only then.
C7_StopsAtFirstSuccess ==
    /\ [](\A p \in Procs :
            loc[p].op = "processPayment" =>
              /\ \A k \in 1..Len(loc[p].log) :
                    loc[p].log[k] = "success" => k = Len(loc[p].log)
              /\ (pc[p] = "done" /\ loc[p].log # <<>> /\ Last(loc[p].log) = "success")
                    => loc[p].out = [kind |-> "payment", success |-> TRUE,
                                     transactionId |-> Len(loc[p].log) - 1])
    /\ [][\A p \in Procs :
            (loc[p].op = "processPayment" /\ pc[p] # "done" /\ pc'[p] # pc[p]) =>
              /\ (loc[p].log # <<>> /\ Last(loc[p].log) = "success")
                    => /\ pc'[p] = "done"
                       /\ orders'[loc[p].oid].status = CONFIRMED
              /\ orders' # orders
                    => /\ loc[p].log # <<>> /\ Last(loc[p].log) = "success"
                       /\ orders'[loc[p].oid].status = CONFIRMED]_vars

\* a processPayment succeeded at its second attempt and the order is CONFIRMED
C7_Witness ==
    \E p \in Procs :
        /\ Settled(p, "processPayment")
        /\ loc[p].log = <<"throw", "success">>
        /\ orders[loc[p].oid].status = CONFIRMED

\* ------------------------------------------------------------------- C8
\* C8: the order a successful create returns has a total equal to the sum of
\* price * quantity over its items, and its items are the requested lines, one
\* each, in the order given, at the price found when the line was attached.
C8_TotalReconciles ==
    \A p \in Procs :
        (Settled(p, "create") /\ loc[p].out.kind = "order")
            => /\ loc[p].out.total = SumSubtotals(loc[p].out.items)
               /\ Len(loc[p].out.items) = Len(loc[p].req)
               /\ \A k \in 1..Len(loc[p].out.items) :
                    /\ loc[p].out.items[k].productId = loc[p].req[k].productId
                    /\ loc[p].out.items[k].quantity = loc[p].req[k].quantity

\* ------------------------------------------------------------------- C9
\* C9: after a create that aborted on an item, its order is not left PENDING
\* with fewer items than were requested.
C9_NoPartialPendingOrder ==
    \A p \in Procs :
        (Settled(p, "create") /\ loc[p].out.kind = "error" /\ loc[p].oid # 0)
            => ~(/\ orders[loc[p].oid].status = PENDING
                 /\ Len(ItemsOf(loc[p].oid)) < requested[loc[p].oid])

\* ------------------------------------------------------------------- C10
\* p read the next line of its create request in this step
ChecksLine(p) ==
    /\ pc[p] = "c_find"
    /\ Len(loc'[p].req) = Len(loc[p].req) + 1

\* C10: when create checks a line whose quantity exceeds the stock its product
\* has at that moment, the create fails there with the insufficient-stock
\* error naming the product, and the step changes no stock and attaches no
\* order item; a create that ended with that error has attached items for the
\* earlier lines only.
C10_InsufficientStock ==
    /\ [][\A p \in Procs :
            (/\ ChecksLine(p)
             /\ Last(loc'[p].req).productId \in Products
             /\ stock[Last(loc'[p].req).productId] < Last(loc'[p].req).quantity)
                => /\ pc'[p] = "done"
                   /\ loc'[p].out = BadRequest("Not enough stock for",
                                               Last(loc'[p].req).productId)
                   /\ stock' = stock
                   /\ items' = items]_vars
    /\ [](\A p \in Procs :
            (/\ Settled(p, "create")
             /\ loc[p].out.kind = "error"
             /\ loc[p].out.what = "Not enough stock for")
                => /\ loc[p].out.id = Last(loc[p].req).productId
                   /\ Len(ItemsOf(loc[p].oid)) = Len(loc[p].req) - 1
                   /\ \A k \in 1..Len(ItemsOf(loc[p].oid)) :
                        ItemsOf(loc[p].oid)[k].productId = loc[p].req[k].productId)

\* the scenario of the specification: stock 1, quantity 2, create refused
C10_Witness ==
    \E p \in Procs :
        /\ Settled(p, "create")
        /\ loc[p].out.kind = "error"
        /\ loc[p].out.what = "Not enough stock for"
        /\ Last(loc[p].req).quantity = 2
        /\ stock[loc[p].out.id] = 1

\* ------------------------------------------------------------------- C11
\* C11: in every state, every stored order's total equals the sum of
\* price * quantity over the items attached to it so far.
C11_StoredTotalReconciles ==
    \A oid \in 1..Len(orders) :
        orders[oid].total = SumSubtotals(ItemsOf(oid))

\* ------------------------------------------------------------------- C12
\* what is recorded for the k-th stored order item
RecordedItem(k) ==
    [orderId |-> items[k].orderId, productId |-> items[k].productId,
     quantity |-> items[k].quantity, price |-> ItemPrice(items[k])]

\* C12: no step (price update, create, processPayment, cancel, updateStatus)
\* removes a stored order item or changes its recorded price or quantity.
C12_ItemPriceFrozen ==
    [][/\ Len(items') >= Len(items)
       /\ \A k \in 1..Len(items) : RecordedItem(k)' = RecordedItem(k)]_vars

\* an item is stored at a price its product no longer has
C12_Witness ==
    \E k \in 1..Len(items) : ItemPrice(items[k]) # price[items[k].productId]

\* ------------------------------------------------------------------- C13
\* p's decrementStock call is evaluated in this step
Reserves(p) == pc[p] = "c_dec" /\ pc'[p] # "c_dec"

\* C13: a decrementStock call evaluated when the product's stock is below the
\* quantity fails with the insufficient-stock error and changes no product's
\* stock; one evaluated when the stock suffices lowers that product's stock by
\* exactly the quantity and changes no other product's stock.
C13_ReserveAllOrNothing ==
    [][\A p \in Procs :
          Reserves(p) =>
             LET id == loc[p].product.id
                 quantity == loc[p].req[loc[p].i].quantity
             IN IF stock[id] < quantity
                THEN /\ pc'[p] = "done"
                     /\ loc'[p].out = BadRequest("Not enough stock available", 0)
                     /\ stock' = stock
                ELSE /\ loc'[p].out = NoOut
                     /\ stock'[id] = stock[id] - quantity
                     /\ \A other \in Products \ {id} :
                            stock'[other] = stock[other]]_vars

\* a reservation of two units succeeded and a later reservation was refused
\* while some stock was left
C13_Witness ==
    \E p \in Procs, id \in Products :
        /\ Settled(p, "create")
        /\ loc[p].out = BadRequest("Not enough stock available", 0)
        /\ loc[p].product.id = id
        /\ reserved[id] >= 2
        /\ stock[id] > 0

\* ------------------------------------------------------------------- C14
\* C14: in every projection getOrderWithFullDetails returned, user.latestOrder
\* holds exactly id, status, total and createdAt, equal to the projected order's
\* own id, status, total and createdAt; each item's product holds exactly id,
\* name, price and category, and the category is null or holds exactly id and
\* name.
C14_ProjectionAcyclic ==
    \A p \in Procs :
        (Settled(p, "getOrderWithFullDetails") /\ loc[p].out.kind = "details")
            => LET d == loc[p].out.body
                   latest == d.user.latestOrder
               IN /\ DOMAIN latest = {"id", "status", "total", "createdAt"}
                  /\ latest.id = d.id
                  /\ latest.status = d.status
                  /\ latest.total = d.total
                  /\ latest.createdAt = d.createdAt
                  /\ \A k \in 1..Len(d.items) :
                       LET product == d.items[k].product
                       IN /\ DOMAIN product = {"id", "name", "price", "category"}
                          /\ product.id = d.items[k].productId
                          /\ \/ product.category = Null
                             \/ DOMAIN product.category = {"id", "name"}

\* a projected order with an item whose product has a category and an item
\* whose product has none
C14_Witness ==
    \E p \in Procs :
        /\ Settled(p, "getOrderWithFullDetails")
        /\ loc[p].out.kind = "details"
        /\ \E k, j \in 1..Len(loc[p].out.body.items) :
              /\ loc[p].out.body.items[k].product.category = Null
              /\ loc[p].out.body.items[j].product.category # Null

\* ------------------------------------------------------------------- C15
\* no handler is between two of its steps
Quiescent == \A p \in Procs : pc[p] \in {"idle", "done"}

\* C15: whatever the interleaving of cancels and creates, once every handler
\* has settled each product's stock is its initial stock minus the quantities
\* reserved plus the quantities restocked: no restock and no reservation is
\* lost.
C15_RestockAtomicIncrement ==
    Quiescent =>
        \A id \in Products :
            stock[id] = InitStock - reserved[id] + restocked[id]

\* ------------------------------------------------------------------- C16
\* p's create failed on a line of its request
FailedInLoop(p) ==
    Settled(p, "create") /\ loc[p].out.kind = "error" /\ loc[p].oid # 0

\* C16: create takes the lines in the order given and stops at the first that
\* fails.  The failing step ends the call and undoes nothing: stock, order
\* items, orders and the reservations made stay as they are.  After it, the
\* failing line is the last one read, the lines before it are attached in
\* order with their quantities, and nothing is attached for a later line.
C16_FailFastNoRollback ==
    /\ [][\A p \in Procs :
            (pc[p] \in {"c_find", "c_dec"} /\ loc'[p].out.kind = "error")
                => /\ pc'[p] = "done"
                   /\ UNCHANGED <<stock, items, orders, reserved, restocked>>]_vars
    /\ [](\A p \in Procs :
            FailedInLoop(p) =>
                LET k == loc[p].i
                    attached == ItemsOf(loc[p].oid)
                IN /\ Len(loc[p].req) = k
                   /\ k <= loc[p].n
                   /\ Len(attached) \in {k - 1, k}
                   /\ \A j \in 1..(k - 1) :
                        /\ attached[j].productId = loc[p].req[j].productId
                        /\ attached[j].quantity = loc[p].req[j].quantity
                   /\ Len(attached) = k => loc[p].out.what = "Not enough stock available")

\* one create failed on its second line with its first line attached and
\* reserved, and another failed on the first of its two lines
C16_Witness ==
    \E p, q \in Procs :
        /\ FailedInLoop(p)
        /\ loc[p].i = 2
        /\ Len(ItemsOf(loc[p].oid)) >= 1
        /\ reserved[loc[p].req[1].productId] >= loc[p].req[1].quantity
        /\ FailedInLoop(q)
        /\ loc[q].i = 1
        /\ loc[q].n = 2
        /\ ItemsOf(loc[q].oid) = <<>>

\* ------------------------------------------------------------------- C17
\* no gateway call of p has succeeded
NoSuccess(p) == \A k \in 1..Len(loc[p].log) : loc[p].log[k] # "success"

HeldQty(id) ==
    SumQty(SelectSeq(items, LAMBDA it :
                       orders[it.orderId].status \in {PENDING, CONFIRMED}), id)

\* C18: under create, processPayment and cancel, whenever every handler has
\* settled, for every product the stock plus the quantities of the product's
\* items in PENDING or CONFIRMED orders equals the initial stock.
C18_StockConservation ==
    Quiescent =>
        \A id \in Products : stock[id] + HeldQty(id) = InitStock

\* ------------------------------------------------------------------- C19
\* p's cancel of order oid took effect: it passed the PENDING check, restocked
\* and saved the order as CANCELLED
CancelTookEffect(p, oid) ==
    /\ Settled(p, "cancel")
    /\ loc[p].oid = oid
    /\ loc[p].out.kind = "order"

\* p's processPayment of order oid, found PENDING, took effect: a gateway
\* charge succeeded and the order was saved as CONFIRMED
PaymentTookEffect(p, oid) ==
    /\ Settled(p, "processPayment")
    /\ loc[p].oid = oid
    /\ loc[p].loaded = PENDING
    /\ loc[p].out.kind = "payment"

\* C19: of a cancel and a processPayment of the same order that both found it
\* PENDING, at most one takes effect: an order is never both restocked by a
\* cancel and charged and confirmed by a processPayment.
C19_CancelPaymentExclusive ==
    \A oid \in 1..Len(orders) :
        \A p, q \in Procs :
            ~(CancelTookEffect(p, oid) /\ PaymentTookEffect(q, oid))

\* ------------------------------------------------------------------- C20
\* no create is between two of its steps
NoCreateInProgress ==
    \A p \in Procs : loc[p].op = "create" => pc[p] = "done"

\* C20: under concurrent creates, whenever no create is in progress, the
\* quantities of the stored order items of each product add up to the
\* quantities decrementStock reserved for it: no stored item is without a
\* successful reservation of its quantity.
C20_ItemsBackedByReservation ==
    NoCreateInProgress =>
        \A id \in Products : SumQty(items, id) = reserved[id]

====
